---- MODULE Spec2Model ----
(***************************************************************************)
(* Model of the App component of Read-to-the-baby (src/App.tsx): the mood  *)
(* (babyState) driven by the capture callback, the silence timer, the      *)
(* channel callbacks and the pause toggle, and the playback cursor that    *)
(* schedules the response audio.                                           *)
(*                                                                         *)
(* Time is the integer `now`, in milliseconds; it stands for Date.now(),   *)
(* for the clock of setTimeout and for outputContext.currentTime.  It      *)
(* advances in steps of Tick.  A timeout whose deadline has been reached   *)
(* runs before time advances further; other callbacks due at the same      *)
(* instant may run before it.                                              *)
(*                                                                         *)
(* Loudness (the RMS of one frame) is an integer in thousandths.           *)
(***************************************************************************)
EXTENDS Integers, FiniteSets, Sequences, TLC

\* src/services/storyService.ts:79-80 (the constants module)
SPEECH_THRESHOLD == 50
SILENCE_TOLERANCE_MS == 2000

\* Bounds of the model
MaxSessions == 2
MaxTicks == 3
MaxMessages == 2
MaxTimers == 2

Tick == SILENCE_TOLERANCE_MS \div 2
Sessions == 1..MaxSessions
TimerIds == 1..MaxTimers
Loudness == {SPEECH_THRESHOLD, SPEECH_THRESHOLD + 1}
ChunkDurations == {300, 500}

\* src/types.ts: BabyState, AppMode
BabyState == {"SLEEPING", "CRYING", "LISTENING", "HAPPY", "PAUSED"}
AppMode == {"SETUP", "ACTIVE", "ERROR"}

VARIABLES
  mode,               \* useState<AppMode>
  babyState,          \* useState<BabyState>: the mood
  volume,             \* useState(0)
  isConnected,        \* useState(false)
  isPaused,           \* useState(false)
  isPausedRef,        \* useRef(false)
  lastSpeechTimeRef,  \* useRef(Date.now())
  silenceTimerRef,    \* useRef<Timeout|null>: id of the last timeout set, 0 = null
  nextStartTimeRef,   \* useRef(0): the playback cursor
  audioSourcesRef,    \* useRef(new Set()): the tracked in-flight sources
  processorRef,       \* session whose ScriptProcessor the ref holds, 0 = null
  audioContextRef,    \* session whose input AudioContext the ref holds, 0 = null
  streamRef,          \* session whose microphone MediaStream the ref holds, 0 = null
  timers,             \* the runtime's pending timeouts: set of [id, at]
  playing,            \* sources started on an output context, not ended or stopped
  decoding,           \* onmessage invocations suspended at await decodeAudioData
  msgCount,           \* number of inbound messages delivered so far
  sess,               \* per startSession invocation: pc, wired, ctxOpen, mic,
                      \* queued
  mounted,            \* the component is mounted
  now,                \* the clock, ms
  lastVad,            \* history: time of the last SessionOpened, ResumeRequested
                      \* or frame above SPEECH_THRESHOLD (paused or not)
  lastEvent           \* history: the callback that ran last, [op, arg, pre]

vars == <<mode, babyState, volume, isConnected, isPaused, isPausedRef,
          lastSpeechTimeRef, silenceTimerRef, nextStartTimeRef, audioSourcesRef,
          processorRef, audioContextRef, streamRef, timers, playing, decoding,
          msgCount, sess, mounted, now, lastVad, lastEvent>>

reactState == <<mode, babyState, volume, isConnected, isPaused>>
timerState == <<silenceTimerRef, timers>>
playbackState == <<nextStartTimeRef, audioSourcesRef, playing>>
sessionRefs == <<processorRef, audioContextRef, streamRef>>

\* History record of a callback: its name, an argument, the mood it found
Ev(op, arg) == [op |-> op, arg |-> arg, pre |-> babyState]

\* A state setter of an unmounted component is ignored by React.
SetState(cur, v) == IF mounted THEN v ELSE cur

\* clearTimeout(id): removes the pending timeout with that id, if any
clearTimeout(ts, id) == {t \in ts : t.id # id}

\* `if (silenceTimerRef.current) clearTimeout(silenceTimerRef.current)`
clearSilenceTimer(ts) == IF silenceTimerRef # 0 THEN clearTimeout(ts, silenceTimerRef) ELSE ts

FreeTimerIds(ts) == {i \in TimerIds : \A t \in ts : t.id # i}

\* silenceTimerRef.current = setTimeout(() => setBabyState(CRYING), SILENCE_TOLERANCE_MS)
\* on the pending set ts; the runtime hands out an id no pending timeout has.
setSilenceTimer(ts) ==
  /\ FreeTimerIds(ts) # {}
  /\ LET id == CHOOSE i \in FreeTimerIds(ts) : \A j \in FreeTimerIds(ts) : i <= j
     IN /\ timers' = ts \cup {[id |-> id, at |-> now + SILENCE_TOLERANCE_MS]}
        /\ silenceTimerRef' = id

Init ==
  /\ mode = "SETUP"
  /\ babyState = "SLEEPING"
  /\ volume = 0
  /\ isConnected = FALSE
  /\ isPaused = FALSE
  /\ isPausedRef = FALSE
  /\ lastSpeechTimeRef = 0
  /\ silenceTimerRef = 0
  /\ nextStartTimeRef = 0
  /\ audioSourcesRef = {}
  /\ processorRef = 0
  /\ audioContextRef = 0
  /\ streamRef = 0
  /\ timers = {}
  /\ playing = {}
  /\ decoding = {}
  /\ msgCount = 0
  /\ sess = [s \in Sessions |->
               [pc |-> "idle", wired |-> FALSE, ctxOpen |-> FALSE, mic |-> FALSE,
                queued |-> FALSE]]
  /\ mounted = TRUE
  /\ now = 0
  /\ lastVad = 0
  /\ lastEvent = [op |-> "init", arg |-> 0, pre |-> "SLEEPING"]

-----------------------------------------------------------------------------
\* startSession, up to `await navigator.mediaDevices.getUserMedia`: the click
\* on the start button, which is rendered while mode = SETUP.
startSession(s) ==
  /\ mounted
  /\ mode = "SETUP"
  /\ sess[s].pc = "idle"
  /\ \A r \in Sessions : r < s => sess[r].pc # "idle"
  /\ sess' = [sess EXCEPT ![s] = [pc |-> "mic", wired |-> FALSE, ctxOpen |-> TRUE,
                                  mic |-> FALSE, queued |-> FALSE]]
  /\ audioContextRef' = s
  /\ lastEvent' = Ev("start", 0)
  /\ UNCHANGED <<reactState, isPausedRef, lastSpeechTimeRef, timerState, playbackState,
                 processorRef, streamRef, decoding, msgCount, mounted, now, lastVad>>

\* getUserMedia rejects: catch, setMode(ERROR)
micDenied(s) ==
  /\ sess[s].pc = "mic"
  /\ sess' = [sess EXCEPT ![s].pc = "failed"]
  /\ mode' = SetState(mode, "ERROR")
  /\ lastEvent' = Ev("micDenied", 0)
  /\ UNCHANGED <<babyState, volume, isConnected, isPaused, isPausedRef, lastSpeechTimeRef,
                 timerState, playbackState, sessionRefs, decoding, msgCount, mounted,
                 now, lastVad>>

\* getUserMedia resolves: ai.live.connect is called (the channel starts to
\* open), the processor is created and wired, capture starts.
micGranted(s) ==
  /\ sess[s].pc = "mic"
  /\ sess' = [sess EXCEPT ![s].pc = "connecting", ![s].wired = TRUE, ![s].mic = TRUE]
  /\ streamRef' = s
  /\ processorRef' = s
  /\ lastEvent' = Ev("micGranted", 0)
  /\ UNCHANGED <<reactState, isPausedRef, lastSpeechTimeRef, timerState, playbackState,
                 audioContextRef, decoding, msgCount, mounted, now, lastVad>>

\* getUserMedia resolves and ai.live.connect is called, but wiring the capture
\* graph (createMediaStreamSource, createScriptProcessor, connect) throws:
\* catch, setMode(ERROR); the channel keeps opening.
wiringFailed(s) ==
  /\ sess[s].pc = "mic"
  /\ sess' = [sess EXCEPT ![s].pc = "connecting", ![s].mic = TRUE]
  /\ streamRef' = s
  /\ mode' = SetState(mode, "ERROR")
  /\ lastEvent' = Ev("wiringFailed", 0)
  /\ UNCHANGED <<babyState, volume, isConnected, isPaused, isPausedRef, lastSpeechTimeRef,
                 timerState, playbackState, processorRef, audioContextRef, decoding,
                 msgCount, mounted, now, lastVad>>

\* Mutant of onopen: the mood is set but no timeout is armed.
onopen_noTimer(s) ==
  /\ sess[s].pc = "connecting"
  /\ sess' = [sess EXCEPT ![s].pc = "open", ![s].queued = FALSE]
  /\ isConnected' = SetState(isConnected, TRUE)
  /\ mode' = SetState(mode, "ACTIVE")
  /\ babyState' = SetState(babyState, "LISTENING")
  /\ lastSpeechTimeRef' = now
  /\ UNCHANGED timerState
  /\ lastVad' = now
  /\ lastEvent' = Ev("open", 0)
  /\ UNCHANGED <<volume, isPaused, isPausedRef, playbackState, sessionRefs, decoding,
                 msgCount, mounted, now>>

\* Mutant of onopen: the existing timeout is not cleared before the new one is
\* set.
onopen_noClear(s) ==
  /\ sess[s].pc = "connecting"
  /\ sess' = [sess EXCEPT ![s].pc = "open", ![s].queued = FALSE]
  /\ isConnected' = SetState(isConnected, TRUE)
  /\ mode' = SetState(mode, "ACTIVE")
  /\ babyState' = SetState(babyState, "LISTENING")
  /\ lastSpeechTimeRef' = now
  /\ setSilenceTimer(timers)
  /\ lastVad' = now
  /\ lastEvent' = Ev("open", 0)
  /\ UNCHANGED <<volume, isPaused, isPausedRef, playbackState, sessionRefs, decoding,
                 msgCount, mounted, now>>

\* callbacks.onopen
onopen(s) ==
  /\ sess[s].pc = "connecting"
  /\ sess' = [sess EXCEPT ![s].pc = "open", ![s].queued = FALSE]
  /\ isConnected' = SetState(isConnected, TRUE)
  /\ mode' = SetState(mode, "ACTIVE")
  /\ babyState' = SetState(babyState, "LISTENING")
  /\ lastSpeechTimeRef' = now
  /\ setSilenceTimer(clearSilenceTimer(timers))
  /\ lastVad' = now
  /\ lastEvent' = Ev("open", 0)
  /\ UNCHANGED <<volume, isPaused, isPausedRef, playbackState, sessionRefs, decoding,
                 msgCount, mounted, now>>

\* callbacks.onclose; a channel that closes before it opened leaves the setup
\* of the session failed, its sessionPromise never resolved.
onclose(s) ==
  /\ sess[s].pc \in {"connecting", "open"}
  /\ sess' = [sess EXCEPT ![s].pc = IF sess[s].pc = "open" THEN "closed" ELSE "failed"]
  /\ isConnected' = SetState(isConnected, FALSE)
  /\ lastEvent' = Ev("close", 0)
  /\ UNCHANGED <<mode, babyState, volume, isPaused, isPausedRef, lastSpeechTimeRef,
                 timerState, playbackState, sessionRefs, decoding, msgCount, mounted,
                 now, lastVad>>

\* callbacks.onerror: console.error only
onerror(s) ==
  /\ sess[s].pc \in {"connecting", "open"}
  /\ lastEvent' = Ev("error", 0)
  /\ UNCHANGED <<reactState, isPausedRef, lastSpeechTimeRef, timerState, playbackState,
                 sessionRefs, decoding, msgCount, sess, mounted, now, lastVad>>

-----------------------------------------------------------------------------
\* Inbound messages: a message either carries no inline audio (dur = 0) or a
\* chunk of some duration whose decode succeeds (ok) or throws.
Payloads == {[dur |-> 0, ok |-> TRUE]} \cup {[dur |-> d, ok |-> o] : d \in ChunkDurations, o \in BOOLEAN}

Max(a, b) == IF a >= b THEN a ELSE b

\* callbacks.onmessage, up to `await decodeAudioData(...)`
onmessage(s, m) ==
  /\ sess[s].pc = "open"
  /\ msgCount < MaxMessages
  /\ msgCount' = msgCount + 1
  /\ IF isPausedRef
       THEN decoding' = decoding
       ELSE IF m.dur # 0
         THEN decoding' = decoding \cup {[seq |-> msgCount + 1, dur |-> m.dur, ok |-> m.ok]}
         ELSE decoding' = decoding
  /\ lastEvent' = Ev("message", 0)
  /\ UNCHANGED <<reactState, isPausedRef, lastSpeechTimeRef, timerState, playbackState,
                 sessionRefs, sess, mounted, now, lastVad>>

\* decodeAudioData of services/audioUtils (base64ToUint8Array included), for
\* the payload of the suspended invocation d: TRUE when it resolves with a
\* buffer of duration d.dur, FALSE when it throws.  The promise is taken to
\* settle asynchronously: other callbacks may run before the awaiting
\* invocation resumes.
decodeAudioData(d) == d.ok

\* Mutant of decodeDone: the source is started at the current output time, the
\* cursor is not consulted.
decodeDone_startNow(d) ==
  /\ d \in decoding
  /\ decoding' = decoding \ {d}
  /\ IF decodeAudioData(d)
       THEN LET currentTime == now
                start == currentTime
                source == [seq |-> d.seq, start |-> start, dur |-> d.dur]
            IN /\ playing' = playing \cup {source}
               /\ nextStartTimeRef' = start + d.dur
               /\ audioSourcesRef' = audioSourcesRef \cup {source}
       ELSE UNCHANGED playbackState
  /\ lastEvent' = Ev(IF d.ok THEN "decoded" ELSE "decodeFailed", 0)
  /\ UNCHANGED <<reactState, isPausedRef, lastSpeechTimeRef, timerState, sessionRefs,
                 msgCount, sess, mounted, now, lastVad>>

\* Mutant of decodeDone: the cursor is set to the current output time plus the
\* chunk's duration, not to the end of the chunk just started.
decodeDone_cursorFromNow(d) ==
  /\ d \in decoding
  /\ decoding' = decoding \ {d}
  /\ IF decodeAudioData(d)
       THEN LET currentTime == now
                start == Max(nextStartTimeRef, currentTime)
                source == [seq |-> d.seq, start |-> start, dur |-> d.dur]
            IN /\ playing' = playing \cup {source}
               /\ nextStartTimeRef' = currentTime + d.dur
               /\ audioSourcesRef' = audioSourcesRef \cup {source}
       ELSE UNCHANGED playbackState
  /\ lastEvent' = Ev(IF d.ok THEN "decoded" ELSE "decodeFailed", 0)
  /\ UNCHANGED <<reactState, isPausedRef, lastSpeechTimeRef, timerState, sessionRefs,
                 msgCount, sess, mounted, now, lastVad>>

\* Mutant of decodeDone: a failed decode still advances the cursor by the
\* chunk's duration.
decodeDone_failAdvances(d) ==
  /\ d \in decoding
  /\ decoding' = decoding \ {d}
  /\ IF decodeAudioData(d)
       THEN LET currentTime == now
                start == Max(nextStartTimeRef, currentTime)
                source == [seq |-> d.seq, start |-> start, dur |-> d.dur]
            IN /\ playing' = playing \cup {source}
               /\ nextStartTimeRef' = start + d.dur
               /\ audioSourcesRef' = audioSourcesRef \cup {source}
       ELSE /\ nextStartTimeRef' = Max(nextStartTimeRef, now) + d.dur
            /\ UNCHANGED <<audioSourcesRef, playing>>
  /\ lastEvent' = Ev(IF d.ok THEN "decoded" ELSE "decodeFailed", 0)
  /\ UNCHANGED <<reactState, isPausedRef, lastSpeechTimeRef, timerState, sessionRefs,
                 msgCount, sess, mounted, now, lastVad>>

\* callbacks.onmessage, from the resumption after `await decodeAudioData(...)`:
\* schedule the chunk at the cursor, or drop it in the catch.
decodeDone(d) ==
  /\ d \in decoding
  /\ decoding' = decoding \ {d}
  /\ IF decodeAudioData(d)
       THEN LET currentTime == now
                start == Max(nextStartTimeRef, currentTime)
                source == [seq |-> d.seq, start |-> start, dur |-> d.dur]
            IN /\ playing' = playing \cup {source}
               /\ nextStartTimeRef' = start + d.dur
               /\ audioSourcesRef' = audioSourcesRef \cup {source}
       ELSE UNCHANGED playbackState
  /\ lastEvent' = Ev(IF d.ok THEN "decoded" ELSE "decodeFailed", 0)
  /\ UNCHANGED <<reactState, isPausedRef, lastSpeechTimeRef, timerState, sessionRefs,
                 msgCount, sess, mounted, now, lastVad>>

\* source.onended, for a source that played to its end
onended(src) ==
  /\ src \in playing
  /\ now >= src.start + src.dur
  /\ playing' = playing \ {src}
  /\ audioSourcesRef' = audioSourcesRef \ {src}
  /\ lastEvent' = Ev("ended", 0)
  /\ UNCHANGED <<reactState, isPausedRef, lastSpeechTimeRef, timerState, nextStartTimeRef,
                 sessionRefs, decoding, msgCount, sess, mounted, now, lastVad>>

-----------------------------------------------------------------------------
\* Mutant of handleSpeechDetected: only a Crying mood is moved to Listening.
handleSpeechDetected_cryingOnly ==
  IF isPausedRef
    THEN UNCHANGED <<lastSpeechTimeRef, babyState, timerState>>
    ELSE /\ lastSpeechTimeRef' = now
         /\ babyState' = SetState(babyState,
                                  IF babyState = "CRYING" THEN "LISTENING" ELSE babyState)
         /\ setSilenceTimer(clearSilenceTimer(timers))

\* Mutant of handleSpeechDetected: speech after Crying makes the mood Happy.
handleSpeechDetected_happy ==
  IF isPausedRef
    THEN UNCHANGED <<lastSpeechTimeRef, babyState, timerState>>
    ELSE /\ lastSpeechTimeRef' = now
         /\ babyState' = SetState(babyState,
                                  IF babyState = "CRYING" THEN "HAPPY"
                                  ELSE IF babyState = "SLEEPING" THEN "LISTENING"
                                  ELSE babyState)
         /\ setSilenceTimer(clearSilenceTimer(timers))

\* Mutant of handleSpeechDetected: the existing timeout is not cleared before
\* the new one is set.
handleSpeechDetected_noClear ==
  IF isPausedRef
    THEN UNCHANGED <<lastSpeechTimeRef, babyState, timerState>>
    ELSE /\ lastSpeechTimeRef' = now
         /\ babyState' = SetState(babyState,
                                  IF babyState \in {"CRYING", "SLEEPING"}
                                    THEN "LISTENING" ELSE babyState)
         /\ setSilenceTimer(timers)

\* handleSpeechDetected
handleSpeechDetected ==
  IF isPausedRef
    THEN UNCHANGED <<lastSpeechTimeRef, babyState, timerState>>
    ELSE /\ lastSpeechTimeRef' = now
         /\ babyState' = SetState(babyState,
                                  IF babyState \in {"CRYING", "SLEEPING"}
                                    THEN "LISTENING" ELSE babyState)
         /\ setSilenceTimer(clearSilenceTimer(timers))

\* sessionPromise.then(session => session.sendRealtimeInput(...)) for one
\* frame of session s: with the promise resolved (the channel has opened)
\* the frame is sent at once; until then the reaction waits on the promise.
\* queued tells that some reaction waits; onopen, after which the promise
\* resolves, runs them all.
sendRealtimeInput(s) ==
  sess' = [sess EXCEPT ![s].queued = @ \/ sess[s].pc \notin {"open", "closed"}]

\* Mutant of onaudioprocess: the comparison with SPEECH_THRESHOLD is not strict.
onaudioprocess_notStrict(s, rms) ==
  /\ sess[s].wired
  /\ sess[s].ctxOpen
  /\ IF isPausedRef
       THEN UNCHANGED <<volume, lastSpeechTimeRef, babyState, timerState, sess>>
       ELSE /\ sendRealtimeInput(s)
            /\ volume' = SetState(volume, rms)
            /\ IF rms >= SPEECH_THRESHOLD
                 THEN handleSpeechDetected
                 ELSE UNCHANGED <<lastSpeechTimeRef, babyState, timerState>>
  /\ lastVad' = IF rms > SPEECH_THRESHOLD THEN now ELSE lastVad
  /\ lastEvent' = Ev("frame", rms)
  /\ UNCHANGED <<mode, isConnected, isPaused, isPausedRef, playbackState, sessionRefs,
                 decoding, msgCount, mounted, now>>

\* Mutant of onaudioprocess: the `if (isPausedRef.current) return` is missing.
onaudioprocess_noPauseCheck(s, rms) ==
  /\ sess[s].wired
  /\ sess[s].ctxOpen
  /\ sendRealtimeInput(s)
  /\ volume' = SetState(volume, rms)
  /\ IF rms > SPEECH_THRESHOLD
       THEN handleSpeechDetected
       ELSE UNCHANGED <<lastSpeechTimeRef, babyState, timerState>>
  /\ lastVad' = IF rms > SPEECH_THRESHOLD THEN now ELSE lastVad
  /\ lastEvent' = Ev("frame", rms)
  /\ UNCHANGED <<mode, isConnected, isPaused, isPausedRef, playbackState, sessionRefs,
                 decoding, msgCount, mounted, now>>

\* processor.onaudioprocess for one frame whose RMS is rms
onaudioprocess(s, rms) ==
  /\ sess[s].wired
  /\ sess[s].ctxOpen
  /\ IF isPausedRef
       THEN UNCHANGED <<volume, lastSpeechTimeRef, babyState, timerState, sess>>
       ELSE /\ sendRealtimeInput(s)
            /\ volume' = SetState(volume, rms)
            /\ IF rms > SPEECH_THRESHOLD
                 THEN handleSpeechDetected
                 ELSE UNCHANGED <<lastSpeechTimeRef, babyState, timerState>>
  /\ lastVad' = IF rms > SPEECH_THRESHOLD THEN now ELSE lastVad
  /\ lastEvent' = Ev("frame", rms)
  /\ UNCHANGED <<mode, isConnected, isPaused, isPausedRef, playbackState, sessionRefs,
                 decoding, msgCount, mounted, now>>

\* Mutant of silenceTimerFired: a setInterval in place of the setTimeout, so
\* that the callback stays pending for another SILENCE_TOLERANCE_MS.
silenceTimerFired_interval(t) ==
  /\ t \in timers
  /\ now >= t.at
  /\ timers' = (timers \ {t}) \cup {[id |-> t.id, at |-> t.at + SILENCE_TOLERANCE_MS]}
  /\ babyState' = SetState(babyState, "CRYING")
  /\ lastEvent' = Ev("timer", 0)
  /\ UNCHANGED <<mode, volume, isConnected, isPaused, isPausedRef, lastSpeechTimeRef,
                 silenceTimerRef, playbackState, sessionRefs, decoding, msgCount, sess,
                 mounted, now, lastVad>>

\* The setTimeout callback `() => setBabyState(BabyState.CRYING)` of a pending
\* timeout whose deadline has been reached
silenceTimerFired(t) ==
  /\ t \in timers
  /\ now >= t.at
  /\ timers' = timers \ {t}
  /\ babyState' = SetState(babyState, "CRYING")
  /\ lastEvent' = Ev("timer", 0)
  /\ UNCHANGED <<mode, volume, isConnected, isPaused, isPausedRef, lastSpeechTimeRef,
                 silenceTimerRef, playbackState, sessionRefs, decoding, msgCount, sess,
                 mounted, now, lastVad>>

\* Mutant of pauseBranch: the playback cursor is not reset.
pauseBranch_keepCursor ==
  /\ timers' = clearSilenceTimer(timers)
  /\ silenceTimerRef' = silenceTimerRef
  /\ babyState' = "PAUSED"
  /\ volume' = 0
  /\ playing' = playing \ audioSourcesRef
  /\ audioSourcesRef' = {}
  /\ nextStartTimeRef' = nextStartTimeRef
  /\ lastEvent' = Ev("pause", Cardinality(audioSourcesRef))
  /\ UNCHANGED <<lastSpeechTimeRef, lastVad>>

\* togglePause, the branch `if (newState)`: PAUSING
pauseBranch ==
  /\ timers' = clearSilenceTimer(timers)
  /\ silenceTimerRef' = silenceTimerRef
  /\ babyState' = "PAUSED"
  /\ volume' = 0
  /\ playing' = playing \ audioSourcesRef
  /\ audioSourcesRef' = {}
  /\ nextStartTimeRef' = 0
  /\ lastEvent' = Ev("pause", Cardinality(audioSourcesRef))
  /\ UNCHANGED <<lastSpeechTimeRef, lastVad>>

\* Mutant of resumeBranch: the countdown that was running before the pause is
\* continued (the timeout is due SILENCE_TOLERANCE_MS after the last speech).
resumeBranch_keepDeadline ==
  /\ babyState' = "LISTENING"
  /\ lastSpeechTimeRef' = lastSpeechTimeRef
  /\ LET ts == clearSilenceTimer(timers)
         id == CHOOSE i \in FreeTimerIds(ts) : \A j \in FreeTimerIds(ts) : i <= j
     IN /\ FreeTimerIds(ts) # {}
        /\ timers' = ts \cup {[id |-> id, at |-> lastSpeechTimeRef + SILENCE_TOLERANCE_MS]}
        /\ silenceTimerRef' = id
  /\ lastVad' = now
  /\ lastEvent' = Ev("resume", 0)
  /\ UNCHANGED <<volume, playbackState>>

\* togglePause, the else branch: RESUMING
resumeBranch ==
  /\ babyState' = "LISTENING"
  /\ lastSpeechTimeRef' = now
  /\ setSilenceTimer(clearSilenceTimer(timers))
  /\ lastVad' = now
  /\ lastEvent' = Ev("resume", 0)
  /\ UNCHANGED <<volume, playbackState>>

\* Mutant of togglePause: `isPausedRef.current = newState` is missing.
togglePause_stateOnly ==
  /\ mounted
  /\ mode # "SETUP"
  /\ LET newState == ~isPaused IN
     /\ isPaused' = newState
     /\ isPausedRef' = isPausedRef
     /\ IF newState THEN pauseBranch ELSE resumeBranch
  /\ UNCHANGED <<mode, isConnected, sessionRefs, decoding, msgCount, sess, mounted, now>>

\* togglePause: the click on the pause/resume button of BabyMonitor, which is
\* rendered when mode is not SETUP
togglePause ==
  /\ mounted
  /\ mode # "SETUP"
  /\ LET newState == ~isPaused IN
     /\ isPaused' = newState
     /\ isPausedRef' = newState
     /\ IF newState THEN pauseBranch ELSE resumeBranch
  /\ UNCHANGED <<mode, isConnected, sessionRefs, decoding, msgCount, sess, mounted, now>>

\* The useEffect cleanup, run when the component unmounts
unmount ==
  /\ mounted
  /\ mounted' = FALSE
  /\ sess' = [s \in Sessions |->
                [sess[s] EXCEPT !.mic = sess[s].mic /\ s # streamRef,
                                !.ctxOpen = sess[s].ctxOpen /\ s # audioContextRef,
                                !.wired = sess[s].wired /\ s # processorRef]]
  /\ timers' = clearSilenceTimer(timers)
  /\ lastEvent' = Ev("unmount", 0)
  /\ UNCHANGED <<reactState, isPausedRef, lastSpeechTimeRef, silenceTimerRef, playbackState,
                 sessionRefs, decoding, msgCount, now, lastVad>>

\* Time passes, unless a pending timeout is due.
tick ==
  /\ now + Tick <= MaxTicks * Tick
  /\ \A t \in timers : t.at > now
  /\ now' = now + Tick
  /\ UNCHANGED <<reactState, isPausedRef, lastSpeechTimeRef, timerState, playbackState,
                 sessionRefs, decoding, msgCount, sess, mounted, lastVad, lastEvent>>

-----------------------------------------------------------------------------
\* The whole program: every callback of every session.
Next ==
  \/ \E s \in Sessions : startSession(s)
  \/ \E s \in Sessions : micDenied(s)
  \/ \E s \in Sessions : micGranted(s)
  \/ \E s \in Sessions : wiringFailed(s)
  \/ \E s \in Sessions : onopen(s)
  \/ \E s \in Sessions : onclose(s)
  \/ \E s \in Sessions : onerror(s)
  \/ \E s \in Sessions, m \in Payloads : onmessage(s, m)
  \/ \E d \in decoding : decodeDone(d)
  \/ \E src \in playing : onended(src)
  \/ \E s \in Sessions, rms \in Loudness : onaudioprocess(s, rms)
  \/ \E t \in timers : silenceTimerFired(t)
  \/ togglePause
  \/ unmount
  \/ tick

Spec == Init /\ [][Next]_vars

\* The mood machine: session setup, channel open/close, capture frames, the
\* silence timer and the pause toggle, for every interleaving of up to
\* MaxSessions startSession invocations.  The inbound-message callbacks are
\* left out: they change only decoding, msgCount and the playback state, which
\* no other callback but the pause branch of togglePause reads or writes.
NextMood ==
  \/ \E s \in Sessions : startSession(s)
  \/ \E s \in Sessions : micDenied(s)
  \/ \E s \in Sessions : micGranted(s)
  \/ \E s \in Sessions : wiringFailed(s)
  \/ \E s \in Sessions : onopen(s)
  \/ \E s \in Sessions : onclose(s)
  \/ \E s \in Sessions : onerror(s)
  \/ \E s \in Sessions, rms \in Loudness : onaudioprocess(s, rms)
  \/ \E t \in timers : silenceTimerFired(t)
  \/ togglePause
  \/ tick

SpecMood == Init /\ [][NextMood]_vars

\* Teardown: one session from its start to the unmount of the component, and
\* the callbacks that can still arrive once the cleanup has run.
NextTeardown ==
  \/ startSession(1)
  \/ micDenied(1)
  \/ micGranted(1)
  \/ wiringFailed(1)
  \/ onopen(1)
  \/ onclose(1)
  \/ onerror(1)
  \/ \E rms \in Loudness : onaudioprocess(1, rms)
  \/ \E t \in timers : silenceTimerFired(t)
  \/ togglePause
  \/ unmount
  \/ tick

SpecTeardown == Init /\ [][NextTeardown]_vars

\* The playback scheduler: one session with its inbound messages, their
\* decodes, the end of sources, the silence timer and the pause toggle.
NextPlayback ==
  \/ startSession(1)
  \/ micGranted(1)
  \/ wiringFailed(1)
  \/ onopen(1)
  \/ onclose(1)
  \/ \E m \in Payloads : onmessage(1, m)
  \/ \E d \in decoding : decodeDone(d)
  \/ \E src \in playing : onended(src)
  \/ \E rms \in Loudness : onaudioprocess(1, rms)
  \/ \E t \in timers : silenceTimerFired(t)
  \/ togglePause
  \/ tick

SpecPlayback == Init /\ [][NextPlayback]_vars

-----------------------------------------------------------------------------
\* Steps of the callbacks, for the properties below
FrameStep(rms) == \E s \in Sessions : onaudioprocess(s, rms)
TimerStep == \E t \in timers : silenceTimerFired(t)
PauseStep == ~isPausedRef /\ isPausedRef'
ResumeStep == isPausedRef /\ ~isPausedRef'

\* The one pending timeout is the one silenceTimerRef holds, due at `at`.
OnlyTimerDueAt(ts, ref, at) == ts = {[id |-> ref, at |-> at]}

\* C1: in every reachable state the mood is Paused if and only if the paused
\* flag is set.
C1_PausedIffFlag == (babyState = "PAUSED") <=> isPausedRef

\* C2: while the mood is Listening and the session is not paused, exactly one
\* silence timeout is pending, due SILENCE_TOLERANCE_MS after the last speech
\* (or open, or resume), and the clock has not passed its deadline; when it
\* fires the mood becomes Crying and no timeout is left pending, so that no
\* further firing follows.
C2_SilenceCriesOnce ==
  [][ /\ (babyState' = "LISTENING" /\ ~isPausedRef')
           => /\ OnlyTimerDueAt(timers', silenceTimerRef',
                                lastSpeechTimeRef' + SILENCE_TOLERANCE_MS)
              /\ now' - lastSpeechTimeRef' <= SILENCE_TOLERANCE_MS
      /\ (TimerStep /\ ~isPausedRef) => (babyState' = "CRYING" /\ timers' = {})
    ]_vars

\* C2 witness: the timer has fired, the mood is Crying, more time has passed
\* without speech and nothing is pending.
C2_Witness ==
  /\ lastEvent.op = "timer"
  /\ lastEvent.pre = "LISTENING"
  /\ babyState = "CRYING"
  /\ ~isPausedRef
  /\ now - lastSpeechTimeRef > SILENCE_TOLERANCE_MS

\* C3: the mood becomes Crying only when at least SILENCE_TOLERANCE_MS have
\* passed since the last SpeechDetected, SessionOpened or ResumeRequested.
C3_NoCryingWhileSpeech ==
  [][ (babyState' = "CRYING" /\ babyState # "CRYING")
        => now - lastVad >= SILENCE_TOLERANCE_MS ]_vars

\* C4: a pause request leaves the mood Paused, no pending silence timeout, no
\* source in flight, tracked or playing, and the playback cursor at 0.
C4_PauseFlushes ==
  [][ PauseStep => /\ babyState' = "PAUSED"
                   /\ timers' = {}
                   /\ audioSourcesRef' = {}
                   /\ playing' = {}
                   /\ nextStartTimeRef' = 0 ]_vars

\* C4 witness: a pause issued in the mood Listening (whose silence timeout is
\* pending) with two chunks in flight.
C4_Witness ==
  /\ lastEvent = [op |-> "pause", arg |-> 2, pre |-> "LISTENING"]
  /\ isPausedRef

\* C5: a capture frame delivered while the paused flag is set changes neither
\* the mood, nor the silence timer, nor the last-speech time, nor the volume.
C5_PausedFrameIgnored ==
  [][ \A rms \in Loudness :
        (FrameStep(rms) /\ isPausedRef)
          => UNCHANGED <<babyState, timerState, lastSpeechTimeRef, volume>> ]_vars

\* C5 witness: a frame above the threshold was delivered while paused.
C5_Witness ==
  /\ lastEvent = [op |-> "frame", arg |-> SPEECH_THRESHOLD + 1, pre |-> "PAUSED"]
  /\ isPausedRef
  /\ babyState = "PAUSED"

\* C6: while the paused flag stays set, no source is started or added to the
\* in-flight set and the playback cursor does not move.
C6_NoPlaybackWhilePaused ==
  [][ (isPausedRef /\ isPausedRef')
        => /\ playing' \subseteq playing
           /\ audioSourcesRef' \subseteq audioSourcesRef
           /\ nextStartTimeRef' = nextStartTimeRef ]_vars

\* C7: a resume sets the mood to Listening and leaves exactly one pending
\* timeout, due SILENCE_TOLERANCE_MS after the resume instant; and the mood
\* never becomes Crying less than SILENCE_TOLERANCE_MS after the instant the
\* countdown was last restarted.
C7_ResumeArmsFullTolerance ==
  [][ /\ ResumeStep
           => /\ babyState' = "LISTENING"
              /\ OnlyTimerDueAt(timers', silenceTimerRef', now + SILENCE_TOLERANCE_MS)
      /\ (babyState' = "CRYING" /\ babyState # "CRYING")
           => now >= lastSpeechTimeRef + SILENCE_TOLERANCE_MS
    ]_vars

\* C7 witness: after a pause during which time passed, a resume that no speech
\* has followed, whose timeout is due now, SILENCE_TOLERANCE_MS after it.
C7_Witness ==
  /\ lastEvent = [op |-> "resume", arg |-> 0, pre |-> "PAUSED"]
  /\ babyState = "LISTENING"
  /\ lastSpeechTimeRef > 0
  /\ timers = {[id |-> silenceTimerRef, at |-> now]}
  /\ now = lastSpeechTimeRef + SILENCE_TOLERANCE_MS

\* C8, as claimed: a request made through togglePause, the only entry point of
\* pause and resume, while the paused flag is clear changes neither the mood,
\* nor the flag, nor the silence timer, nor the playback state.
C8_ResumeNoOpWhenNotPaused ==
  [][ (togglePause /\ ~isPausedRef)
        => UNCHANGED <<babyState, isPausedRef, timerState, playbackState>> ]_vars

\* C8, amended: togglePause acts on the paused flag alone: with the flag clear
\* it performs the pause (the mood becomes Paused, no timeout stays pending),
\* and the resume transition to Listening is taken only with the flag set.
C8_ToggleByFlag ==
  [][ togglePause
        => IF isPausedRef
             THEN ~isPausedRef' /\ babyState' = "LISTENING"
             ELSE isPausedRef' /\ babyState' = "PAUSED" /\ timers' = {} ]_vars

\* C8 witness: the toggle was invoked in the mood Crying with the flag clear,
\* and paused.
C8_Witness ==
  /\ lastEvent.op = "pause"
  /\ lastEvent.pre = "CRYING"
  /\ isPausedRef
  /\ babyState = "PAUSED"

\* C9: a frame above SPEECH_THRESHOLD delivered while not paused moves a Crying
\* or Sleeping mood to Listening, leaves any other mood as it is, and leaves
\* exactly one pending timeout, due now + SILENCE_TOLERANCE_MS.
C9_SpeechDetected ==
  [][ \A rms \in Loudness :
        (FrameStep(rms) /\ rms > SPEECH_THRESHOLD /\ ~isPausedRef)
          => /\ babyState' = IF babyState \in {"CRYING", "SLEEPING"}
                               THEN "LISTENING" ELSE babyState
             /\ OnlyTimerDueAt(timers', silenceTimerRef', now + SILENCE_TOLERANCE_MS) ]_vars

\* C9 witness: speech detected in the mood Crying, with the countdown restarted
\* at an instant later than the one of the timeout that made the mood Crying.
C9_Witness ==
  /\ lastEvent = [op |-> "frame", arg |-> SPEECH_THRESHOLD + 1, pre |-> "CRYING"]
  /\ babyState = "LISTENING"
  /\ ~isPausedRef
  /\ lastSpeechTimeRef >= SILENCE_TOLERANCE_MS
  /\ timers # {}

\* C10: once the channel has closed, the mood is Sleeping.
C10_ClosedIsSleeping == lastEvent.op = "close" => babyState = "SLEEPING"

\* No channel has opened yet: every startSession invocation is still before
\* its onopen.
NoChannelOpened == \A s \in Sessions : sess[s].pc \in {"idle", "mic", "connecting", "failed"}

\* C11: until a channel-open callback has run, the mood is Sleeping and no
\* silence timeout is pending.
C11_NotEnteredBeforeOpen ==
  NoChannelOpened => (babyState = "SLEEPING" /\ timers = {})

\* C12: a timeout that runs is the one silenceTimerRef holds, armed at the last
\* restart of the countdown; the mood becomes Crying only by such a firing;
\* and a pause leaves no timeout pending.
C12_OnlyArmedTimerFires ==
  [][ /\ \A t \in timers :
           silenceTimerFired(t)
             => (t.id = silenceTimerRef /\ t.at = lastSpeechTimeRef + SILENCE_TOLERANCE_MS)
      /\ (babyState' = "CRYING" /\ babyState # "CRYING") => TimerStep
      /\ PauseStep => timers' = {}
    ]_vars

\* C12 witness: a pause in the mood Listening cancelled the pending timeout,
\* whose deadline (the last restart + SILENCE_TOLERANCE_MS) has since passed
\* with the mood still Paused.
C12_Witness ==
  /\ lastEvent.op = "pause"
  /\ lastEvent.pre = "LISTENING"
  /\ babyState = "PAUSED"
  /\ timers = {}
  /\ now >= lastSpeechTimeRef + SILENCE_TOLERANCE_MS

\* C13: at most one timeout is pending, and it is the one silenceTimerRef
\* holds.
C13_AtMostOneTimer ==
  /\ Cardinality(timers) <= 1
  /\ \A t \in timers : t.id = silenceTimerRef

\* C13 witness: a channel opened while the timeout of an earlier restart was
\* pending (mood Listening), and one timeout is pending, due
\* SILENCE_TOLERANCE_MS after the open.
C13_Witness ==
  /\ lastEvent.op = "open"
  /\ lastEvent.pre = "LISTENING"
  /\ ~isPausedRef
  /\ lastSpeechTimeRef > 0
  /\ timers = {[id |-> silenceTimerRef, at |-> lastSpeechTimeRef + SILENCE_TOLERANCE_MS]}

\* C14: a chunk is scheduled at the cursor, which is the end of the chunk
\* scheduled before it, or at the current output time when the cursor is
\* behind it; the cursor then moves to the chunk's end.  The cursor changes
\* only by scheduling and by the flush of a pause, and the scheduled intervals
\* of the sources in flight never overlap.
C14_BackToBack ==
  [][ /\ \A d \in decoding :
           (decodeDone(d) /\ decodeAudioData(d))
             => LET start == IF nextStartTimeRef < now THEN now ELSE nextStartTimeRef
                IN /\ playing' = playing \cup {[seq |-> d.seq, start |-> start, dur |-> d.dur]}
                   /\ nextStartTimeRef' = start + d.dur
      /\ nextStartTimeRef' # nextStartTimeRef
           => ((\E d \in decoding : decodeDone(d)) \/ PauseStep)
      /\ \A a, b \in playing' :
           a # b => (a.start + a.dur <= b.start \/ b.start + b.dur <= a.start)
    ]_vars

\* C14 witness: chunks of 500 ms and 300 ms scheduled at the same instant, the
\* first at the current output time and the second exactly 500 ms later.
C14_Witness ==
  \E a, b \in playing :
    /\ a.dur = 500 /\ b.dur = 300
    /\ a.start = now /\ now > 0
    /\ b.start = a.start + 500
    /\ nextStartTimeRef = b.start + 300

\* C15: of two chunks in flight, the one whose message arrived first has the
\* earlier scheduled start.
C15_ArrivalOrder ==
  \A a, b \in playing : a.seq < b.seq => a.start < b.start

\* C16: a decode that fails changes neither the cursor nor the in-flight set,
\* nor the mood, the timer, the capture sessions, the mode or the pause flag.
C16_FailedDecodeDropped ==
  [][ \A d \in decoding :
        (decodeDone(d) /\ ~decodeAudioData(d))
          => UNCHANGED <<playbackState, reactState, isPausedRef, lastSpeechTimeRef,
                         timerState, sessionRefs, sess>>
    ]_vars

\* C16 witness: a decode has just failed while an earlier chunk is in flight
\* and the cursor stands at that chunk's end.
C16_Witness ==
  /\ lastEvent.op = "decodeFailed"
  /\ \E src \in playing : nextStartTimeRef = src.start + src.dur
  /\ \E s \in Sessions : sess[s].pc = "open" /\ sess[s].wired

\* The last callback reported a setup failure: getUserMedia rejected, wiring
\* the capture graph threw, or the channel reported an error before any
\* channel had opened.
SetupFailed ==
  \/ lastEvent.op \in {"micDenied", "wiringFailed"}
  \/ (lastEvent.op = "error" /\ NoChannelOpened)

\* C17: after a setup failure the mode is ERROR and no capture callback can
\* run (no session has a wired processor on an open audio context).
C17_SetupFailureStopsCapture ==
  SetupFailed => (mode = "ERROR" /\ \A s \in Sessions : ~(sess[s].wired /\ sess[s].ctxOpen))

\* A startSession invocation that holds or is acquiring its resources.
SessionLive(s) == sess[s].pc \in {"mic", "connecting", "open"}

\* C19: at most one startSession invocation is starting or active, and at
\* most one capture loop runs.
C19_SingleSession ==
  /\ Cardinality({s \in Sessions : SessionLive(s)}) <= 1
  /\ Cardinality({s \in Sessions : sess[s].wired /\ sess[s].ctxOpen}) <= 1

\* An exit path has been taken: the component unmounted, or setup failed in
\* the catch of startSession after the microphone stream was acquired.
Exited == ~mounted \/ lastEvent.op = "wiringFailed"

\* C18: after an exit no microphone stream is live, no channel is opening or
\* open, and no silence timeout is pending.
C18_TeardownReleasesAll ==
  Exited => /\ \A s \in Sessions : ~sess[s].mic
            /\ \A s \in Sessions : sess[s].pc \notin {"connecting", "open"}
            /\ timers = {}

\* C20: a channel open in a mood other than Paused sets the mood to Listening
\* and leaves exactly one pending timeout, due SILENCE_TOLERANCE_MS after the
\* open.
C20_OpenListensAndArms ==
  [][ \A s \in Sessions :
        (onopen(s) /\ babyState # "PAUSED")
          => /\ babyState' = "LISTENING"
             /\ OnlyTimerDueAt(timers', silenceTimerRef', now + SILENCE_TOLERANCE_MS)
    ]_vars

\* C20 witness: the channel has just opened in the mood Sleeping; the mood is
\* Listening and the timeout is due SILENCE_TOLERANCE_MS from now.
C20_Witness ==
  /\ lastEvent.op = "open"
  /\ lastEvent.pre = "SLEEPING"
  /\ babyState = "LISTENING"
  /\ mode = "ACTIVE"
  /\ OnlyTimerDueAt(timers, silenceTimerRef, now + SILENCE_TOLERANCE_MS)

\* C21: the mood is always Sleeping, Listening, Crying or Paused; Happy is
\* never entered.
C21_NeverHappy == babyState \in {"SLEEPING", "LISTENING", "CRYING", "PAUSED"}

\* C21 witness: a channel opened and closed, speech restarted the countdown
\* later on, and the timeout has fired: the mood is Crying.
C21_Witness ==
  /\ lastEvent.op = "timer"
  /\ babyState = "CRYING"
  /\ lastVad > 0
  /\ \E s \in Sessions : sess[s].pc = "closed"

\* C22: scheduling a chunk never lowers the cursor and leaves it at or after
\* the end of every source in flight; the cursor is lowered only by the flush
\* of a pause, which sets it to 0, and a chunk scheduled at cursor 0 starts at
\* the current output time.
C22_CursorMonotonic ==
  [][ /\ \A d \in decoding :
           decodeDone(d)
             => /\ nextStartTimeRef' >= nextStartTimeRef
                /\ \A src \in playing' : src.start + src.dur <= nextStartTimeRef'
                /\ (decodeAudioData(d) /\ nextStartTimeRef = 0)
                     => [seq |-> d.seq, start |-> now, dur |-> d.dur] \in playing'
      /\ nextStartTimeRef' < nextStartTimeRef
           => (PauseStep /\ nextStartTimeRef' = 0 /\ playing' = {})
    ]_vars

\* C22 witness: a chunk whose decode was pending when the pause flushed the
\* scheduler has been scheduled after the flush: it is the only source in
\* flight, it starts at the current output time and the cursor is at its end.
C22_Witness ==
  /\ lastEvent.op = "decoded"
  /\ isPausedRef
  /\ now > 0
  /\ \E src \in playing :
       /\ playing = {src}
       /\ src.start = now
       /\ nextStartTimeRef = now + src.dur

\* C23: a frame whose RMS is at or below SPEECH_THRESHOLD changes neither the
\* mood, nor the silence timer, nor the last-speech time; a frame above it,
\* delivered while not paused, restarts the countdown whatever came before:
\* the last-speech time is now and the one pending timeout is due
\* SILENCE_TOLERANCE_MS from now.
C23_StrictThreshold ==
  [][ \A rms \in Loudness :
        FrameStep(rms)
          => /\ rms <= SPEECH_THRESHOLD
                  => UNCHANGED <<babyState, timerState, lastSpeechTimeRef>>
             /\ (rms > SPEECH_THRESHOLD /\ ~isPausedRef)
                  => /\ lastSpeechTimeRef' = now
                     /\ OnlyTimerDueAt(timers', silenceTimerRef', now + SILENCE_TOLERANCE_MS)
    ]_vars

\* C23 witness: a frame exactly at SPEECH_THRESHOLD was processed in the mood
\* Listening in the middle of the countdown, which still runs to its old
\* deadline.
C23_Witness ==
  /\ lastEvent = [op |-> "frame", arg |-> SPEECH_THRESHOLD, pre |-> "LISTENING"]
  /\ ~isPausedRef
  /\ babyState = "LISTENING"
  /\ volume = SPEECH_THRESHOLD
  /\ now = lastSpeechTimeRef + Tick
  /\ OnlyTimerDueAt(timers, silenceTimerRef, lastSpeechTimeRef + SILENCE_TOLERANCE_MS)

\* C24: a frame delivered while the paused flag is set is neither sent nor
\* left waiting to be sent, and a frame captured while not paused is sent: at
\* once, or, while its channel is still opening, when the channel opens; no
\* such frame is left waiting on a channel that can no longer open.
C24_PausedNeverSentOthersOnce ==
  [][ /\ \A s \in Sessions, rms \in Loudness :
           (onaudioprocess(s, rms) /\ isPausedRef) => sess' = sess
      /\ \A s \in Sessions : sess'[s].queued => sess'[s].pc = "connecting"
    ]_vars

=============================================================================
